---- MODULE Spec2Model ----
(***************************************************************************)
(* A model of dilax: parameters, effects, modifiers and their composition  *)
(* (src/dilax/parameter.py) and the likelihood layer built on them         *)
(* (src/dilax/likelihood.py).                                              *)
(*                                                                         *)
(* Numbers.  A jax float is modelled as an exact extended rational          *)
(*   [k |-> "fin", n |-> numerator, d |-> denominator > 0]  (lowest terms)  *)
(*   [k |-> "pinf"], [k |-> "ninf"], [k |-> "nan"]          (n = 0, d = 1)  *)
(* with IEEE rules for the infinities and NaN.  Rounding is not modelled.  *)
(* A 1-D array is a sequence of such numbers.                              *)
(***************************************************************************)
EXTENDS Integers, Sequences, FiniteSets, TLC

VARIABLES
    params,     \* the heap of Parameter objects; an object's identity is its index
    mods,       \* the modifier objects constructed so far, in order of construction
    comps,      \* the compose objects constructed so far
    err,        \* outcome of the last compose construction
    sfcall,     \* the last scale_factor / __call__ evaluation of a compose
    updcall,    \* the last Parameter.update call
    pencall,    \* the last read of Parameter.boundary_penalty
    shapecall,  \* the inputs and results of the shape effect under study
    model,      \* the Model held by NLL / Hessian / CovMatrix / SampleToy
    observation,\* the observation held with it
    nllcall,    \* the last call, if it was NLL.__call__
    hesscall,   \* the last call, if it was Hessian.__call__
    toycall     \* the last call, if it was SampleToy.__call__

vars == <<params, mods, comps, err, sfcall, updcall, pencall,
          shapecall, model, observation, nllcall, hesscall, toycall>>

----------------------------------------------------------------------------
(* Extended rational arithmetic (the float operations the code relies on). *)

Abs(x) == IF x < 0 THEN -x ELSE x

RECURSIVE Gcd(_, _)
Gcd(a, b) == IF b = 0 THEN a ELSE Gcd(b, a % b)

Fin(n, d) ==
    LET g == Gcd(Abs(n), d)
    IN  [k |-> "fin", n |-> n \div g, d |-> d \div g]

PInf == [k |-> "pinf", n |-> 0, d |-> 1]
NInf == [k |-> "ninf", n |-> 0, d |-> 1]
NaN  == [k |-> "nan",  n |-> 0, d |-> 1]
Zero == Fin(0, 1)
One  == Fin(1, 1)

IsFin(x) == x.k = "fin"

\* -1, 0 or 1; not used on NaN
Sgn(x) ==
    CASE x.k = "pinf" -> 1
      [] x.k = "ninf" -> -1
      [] OTHER -> IF x.n > 0 THEN 1 ELSE IF x.n < 0 THEN -1 ELSE 0

Signed(s) == IF s > 0 THEN PInf ELSE IF s < 0 THEN NInf ELSE NaN

NNeg(x) ==
    CASE x.k = "fin"  -> Fin(-x.n, x.d)
      [] x.k = "pinf" -> NInf
      [] x.k = "ninf" -> PInf
      [] OTHER -> NaN

NAdd(x, y) ==
    IF x.k = "nan" \/ y.k = "nan" THEN NaN
    ELSE IF IsFin(x) /\ IsFin(y)
         THEN LET g == Gcd(x.d, y.d)
              IN  Fin(x.n * (y.d \div g) + y.n * (x.d \div g), (x.d \div g) * y.d)
    ELSE IF IsFin(x) THEN y
    ELSE IF IsFin(y) THEN x
    ELSE IF x.k = y.k THEN x ELSE NaN

NSub(x, y) == NAdd(x, NNeg(y))

NMul(x, y) ==
    IF x.k = "nan" \/ y.k = "nan" THEN NaN
    ELSE IF IsFin(x) /\ IsFin(y)
         THEN LET g == Gcd(Abs(x.n), y.d)
                  h == Gcd(Abs(y.n), x.d)
              IN  Fin((x.n \div g) * (y.n \div h), (x.d \div h) * (y.d \div g))
    ELSE Signed(Sgn(x) * Sgn(y))

\* a zero divisor is +0
NDiv(x, y) ==
    IF x.k = "nan" \/ y.k = "nan" THEN NaN
    ELSE IF IsFin(y) /\ y.n = 0 THEN Signed(Sgn(x))
    ELSE IF IsFin(x) /\ IsFin(y)
         THEN IF y.n > 0 THEN NMul(x, Fin(y.d, y.n))
                         ELSE NMul(x, Fin(-y.d, -y.n))
    ELSE IF IsFin(x) THEN Zero
    ELSE IF IsFin(y) THEN Signed(Sgn(x) * Sgn(y))
    ELSE NaN

\* x < y; FALSE whenever a NaN is compared
NLt(x, y) ==
    IF x.k = "nan" \/ y.k = "nan" THEN FALSE
    ELSE IF IsFin(x) /\ IsFin(y) THEN x.n * y.d < y.n * x.d
    ELSE IF x.k = y.k THEN FALSE
    ELSE x.k = "ninf" \/ y.k = "pinf"

NGt(x, y) == NLt(y, x)

NAbs(x) == IF x.k = "nan" THEN NaN ELSE IF Sgn(x) < 0 THEN NNeg(x) ELSE x

\* jnp.maximum: a NaN operand gives NaN
NMaximum(x, y) ==
    IF x.k = "nan" \/ y.k = "nan" THEN NaN
    ELSE IF NLt(x, y) THEN y ELSE x

SeqRange(s) == {s[i] : i \in DOMAIN s}

\* numpy broadcasting of a 1-D array to length n (a length-1 array repeats)
CanBroadcast(a, n) == Len(a) = n \/ Len(a) = 1
BroadcastTo(a, n) == [i \in 1..n |-> IF Len(a) = 1 THEN a[1] ELSE a[i]]

----------------------------------------------------------------------------
(* Parameter                                                               *)

\* An input array is [rank |-> 0 or 1, data |-> its elements]; as1darray
\* gives the 1-D array of the same elements.
as1darray(x) == x.data

ParameterInit(value, bounds) ==
    [value |-> as1darray(value),
     bounds |-> <<as1darray(bounds[1]), as1darray(bounds[2])>>,
     constraints |-> {}]

\* the receiver's bounds, already 1-D, are passed through the converter again
Rank1(a) == [rank |-> 1, data |-> a]

\* a slip: the receiver's own value is passed on
ParameterUpdate_KeepsValue(self, value) ==
    ParameterInit(Rank1(self.value), <<Rank1(self.bounds[1]), Rank1(self.bounds[2])>>)

\* a slip: the receiver's constraint set is carried to the new object
ParameterUpdate_CarriesConstraints(self, value) ==
    [ParameterInit(value, <<Rank1(self.bounds[1]), Rank1(self.bounds[2])>>)
        EXCEPT !.constraints = self.constraints]

ParameterUpdate(self, value) ==
    ParameterInit(value, <<Rank1(self.bounds[1]), Rank1(self.bounds[2])>>)

\* a slip: the upper bound itself is penalised
boundary_penalty_Closed(self) ==
    LET n  == Len(self.value)
        lo == BroadcastTo(self.bounds[1], n)
        hi == BroadcastTo(self.bounds[2], n)
    IN  [i \in 1..n |->
            IF NLt(self.value[i], lo[i]) \/ ~NLt(self.value[i], hi[i])
            THEN PInf ELSE Zero]

boundary_penalty(self) ==
    LET n  == Len(self.value)
        lo == BroadcastTo(self.bounds[1], n)
        hi == BroadcastTo(self.bounds[2], n)
    IN  [i \in 1..n |->
            IF NLt(self.value[i], lo[i]) \/ NGt(self.value[i], hi[i])
            THEN PInf ELSE Zero]

----------------------------------------------------------------------------
(* Effects.  An effect is a record                                         *)
(*   [kind, width, tuple, up, down, lamb]                                  *)
(* whose unused fields are empty; tuple says that an lnN width is the pair *)
(* (down, up).                                                             *)

Flat == [pdf |-> "Flat", mean |-> Zero, width |-> Zero]
Gauss(mean, width) == [pdf |-> "Gauss", mean |-> mean, width |-> width]

constraint(effect) ==
    IF effect.kind = "unconstrained" THEN Flat ELSE Gauss(Zero, One)

\* an array result, or the shape error numpy raises
Ok(a)    == [ok |-> TRUE, val |-> a]
Raised   == [ok |-> FALSE, val |-> <<>>]

\* the common length of 1-D operands under numpy broadcasting, 0 if there is none
CommonLen(lens) ==
    LET big == lens \ {1}
    IN  IF big = {} THEN 1
        ELSE IF Cardinality(big) = 1 THEN CHOOSE n \in big : TRUE
        ELSE 0

At(a, i) == IF Len(a) = 1 THEN a[1] ELSE a[i]

unconstrained_scale_factor(effect, parameter, sumw) == Ok(parameter.value)

gauss_scale_factor(effect, parameter, sumw) ==
    LET n == CommonLen({Len(parameter.value), Len(effect.width)})
    IN  IF n = 0 THEN Raised
        ELSE Ok([i \in 1..n |->
                    NAdd(NMul(At(parameter.value, i), At(effect.width, i)), One)])

\* jnp.polyval: Horner's rule, highest power first
RECURSIVE PolyvalFrom(_, _, _, _)
PolyvalFrom(p, x, i, acc) ==
    IF i > Len(p) THEN acc ELSE PolyvalFrom(p, x, i + 1, NAdd(NMul(acc, x), p[i]))

polyval(p, x) == PolyvalFrom(p, x, 1, Zero)

AsymPolyDen == 8

\* a slip in one coefficient
asym_poly_Wrong == <<Fin(3, AsymPolyDen), Fin(-10, AsymPolyDen),
                     Fin(14, AsymPolyDen), Fin(0, AsymPolyDen)>>

asym_poly == <<Fin(3, AsymPolyDen), Fin(-10, AsymPolyDen),
               Fin(15, AsymPolyDen), Fin(0, AsymPolyDen)>>

\* one element of shape.vshift
morph(factor, up, down, sumw) ==
    LET dx_sum    == NSub(NAdd(up, down), NMul(Fin(2, 1), sumw))
        dx_diff   == NSub(up, down)
        abs_value == NAbs(factor)
    IN  NMul(Fin(1, 2),
             NAdd(NMul(dx_diff, factor),
                  NMul(dx_sum,
                       IF NGt(abs_value, One) THEN abs_value
                       ELSE polyval(asym_poly, NMul(factor, factor)))))

vshift(effect, parameter, sumw) ==
    LET n == CommonLen({Len(parameter.value), Len(effect.up),
                        Len(effect.down), Len(sumw)})
    IN  IF n = 0 THEN Raised
        ELSE Ok([i \in 1..n |->
                    morph(At(parameter.value, i), At(effect.up, i),
                          At(effect.down, i), At(sumw, i))])

ClipMinDen == 100000
a_min == Fin(1, ClipMinDen)

\* jnp.clip(x, a_min=...) is maximum(x, a_min)
clip(x, lo) == NMaximum(x, lo)

shape_scale_factor(effect, parameter, sumw) ==
    LET v == vshift(effect, parameter, sumw)
    IN  IF ~v.ok THEN Raised
        ELSE Ok([i \in 1..Len(v.val) |->
                    clip(NDiv(NAdd(At(sumw, i), v.val[i]), At(sumw, i)), a_min)])

lnN_scale(effect, value) ==
    IF effect.tuple
    THEN IF NGt(value, Zero) THEN effect.width[2] ELSE effect.width[1]
    ELSE effect.width[1]

\* jnp.exp, by its second-order expansion about 0 (exp(0) = 1, positive,
\* increasing): 1 + x + x^2/2 for x >= 0 and its reciprocal at -x below 0
Exp2(x) == NAdd(One, NAdd(x, NMul(Fin(1, 2), NMul(x, x))))
exp(x) ==
    CASE x.k = "nan"  -> NaN
      [] x.k = "pinf" -> PInf
      [] x.k = "ninf" -> Zero
      [] OTHER -> IF x.n >= 0 THEN Exp2(x) ELSE NDiv(One, Exp2(NNeg(x)))

lnN_scale_factor(effect, parameter, sumw) ==
    Ok([i \in 1..Len(parameter.value) |->
           exp(NMul(parameter.value[i], lnN_scale(effect, parameter.value[i])))])

\* Poisson(lamb).inv_cdf(Gauss(0, 1).cdf(value)) by the normal approximation of
\* the Poisson quantile, lamb + value * sqrt(lamb), for a rate that is a square
ISqrt(n) == CHOOSE r \in 0..n : r * r <= n /\ (r + 1) * (r + 1) > n
poisson_inv_cdf_of_gauss_cdf(lamb, value) ==
    NAdd(lamb, NMul(value, Fin(ISqrt(lamb.n \div lamb.d), 1)))

poisson_scale_factor(effect, parameter, sumw) ==
    IF ~CanBroadcast(parameter.value, Len(effect.lamb)) THEN Raised
    ELSE Ok([i \in 1..Len(effect.lamb) |->
                poisson_inv_cdf_of_gauss_cdf(effect.lamb[i], At(parameter.value, i))])

effect_scale_factor(effect, parameter, sumw) ==
    CASE effect.kind = "unconstrained" -> unconstrained_scale_factor(effect, parameter, sumw)
      [] effect.kind = "gauss"   -> gauss_scale_factor(effect, parameter, sumw)
      [] effect.kind = "shape"   -> shape_scale_factor(effect, parameter, sumw)
      [] effect.kind = "lnN"     -> lnN_scale_factor(effect, parameter, sumw)
      [] effect.kind = "poisson" -> poisson_scale_factor(effect, parameter, sumw)

----------------------------------------------------------------------------
(* modifier: [name, parameter, effect]; parameter is the index in params of *)
(* the Parameter object it holds.                                           *)

\* a slip: the set is replaced instead of extended
modifier_init_params_Replaces(ps, parameter, effect) ==
    [ps EXCEPT ![parameter].constraints = {constraint(effect)}]

\* modifier.__init__'s effect on the heap of parameters
modifier_init_params(ps, parameter, effect) ==
    [ps EXCEPT ![parameter].constraints = @ \cup {constraint(effect)}]

modifier_scale_factor(m, sumw) ==
    effect_scale_factor(m.effect, params[m.parameter], sumw)

----------------------------------------------------------------------------
(* compose: [modifiers], a tuple of references to its children; a reference *)
(* [type |-> "modifier" or "compose", id |-> index in mods or comps] is the *)
(* child object itself, and isinstance(child, compose) is type = "compose". *)

n_modifiers(self) == Len(self.modifiers)

\* a slip: the names of nested compositions are left out
RECURSIVE NamesDirectLoop(_, _, _)
NamesDirectLoop(self, m, acc) ==
    IF m > n_modifiers(self) THEN acc
    ELSE LET modifier == self.modifiers[m]
         IN  NamesDirectLoop(self, m + 1,
                 IF modifier.type = "compose" THEN acc
                 ELSE Append(acc, mods[modifier.id].name))

names_DirectOnly(self) == NamesDirectLoop(self, 1, <<>>)

RECURSIVE names(_)
RECURSIVE NamesLoop(_, _, _)
NamesLoop(self, m, acc) ==
    IF m > n_modifiers(self) THEN acc
    ELSE LET modifier == self.modifiers[m]
         IN  NamesLoop(self, m + 1,
                 IF modifier.type = "compose"
                 THEN acc \o names(comps[modifier.id])
                 ELSE Append(acc, mods[modifier.id].name))

names(self) == NamesLoop(self, 1, <<>>)

\* list.count
Count(list, x) == Cardinality({i \in DOMAIN list : list[i] = x})

\* the check in compose.__init__
duplicates(self) ==
    SelectSeq(names(self), LAMBDA name : Count(names(self), name) > 1)

\* a dict is a function on its keys; d1.update(d2)
DictUpdate(d1, d2) ==
    [key \in DOMAIN d1 \cup DOMAIN d2 |->
        IF key \in DOMAIN d2 THEN d2[key] ELSE d1[key]]

EmptyDict == <<>>

\* compose.scale_factors: the dict, or the error raised on the way
RECURSIVE scale_factors(_, _)
RECURSIVE ScaleFactorsLoop(_, _, _, _)
ScaleFactorsLoop(self, sumw, m, sfs) ==
    IF m > n_modifiers(self) THEN Ok(sfs)
    ELSE LET modifier == self.modifiers[m]
         IN  IF modifier.type = "compose"
             THEN LET sub == scale_factors(comps[modifier.id], sumw)
                  IN  IF ~sub.ok THEN Raised
                      ELSE ScaleFactorsLoop(self, sumw, m + 1, DictUpdate(sfs, sub.val))
             ELSE LET sf == modifier_scale_factor(mods[modifier.id], sumw)
                  IN  IF ~sf.ok \/ ~CanBroadcast(sf.val, Len(sumw)) THEN Raised
                      ELSE ScaleFactorsLoop(self, sumw, m + 1,
                               DictUpdate(sfs, [key \in {mods[modifier.id].name} |->
                                                   BroadcastTo(sf.val, Len(sumw))]))

scale_factors(self, sumw) == ScaleFactorsLoop(self, sumw, 1, EmptyDict)

\* jnp.prod(jnp.stack(arrays), axis=0); jnp.stack raises on an empty list
RECURSIVE ProdOver(_, _, _)
ProdOver(d, keys, i) ==
    IF keys = {} THEN One
    ELSE LET key == CHOOSE x \in keys : TRUE
         IN  NMul(d[key][i], ProdOver(d, keys \ {key}, i))

prod_stack(d, n) ==
    IF DOMAIN d = {} THEN Raised
    ELSE Ok([i \in 1..n |-> ProdOver(d, DOMAIN d, i)])

compose_scale_factor(self, sumw) ==
    LET sfs == scale_factors(self, sumw)
    IN  IF ~sfs.ok THEN Raised ELSE prod_stack(sfs.val, Len(sumw))

compose_call(self, sumw) ==
    LET sf == compose_scale_factor(self, sumw)
    IN  IF ~sf.ok THEN Raised
        ELSE Ok([i \in 1..Len(sumw) |-> NMul(sf.val[i], sumw[i])])

----------------------------------------------------------------------------
(* Inputs                                                                  *)

Scalar(x) == [rank |-> 0, data |-> <<x>>]
Vector(a) == [rank |-> 1, data |-> a]

MaxParams == 2
MaxMods == 2

Names == {"mu", "sigma"}

\* unconstrained()
Unconstrained ==
    [kind |-> "unconstrained", width |-> <<>>, tuple |-> FALSE,
     up |-> <<>>, down |-> <<>>, lamb |-> <<>>]

\* one effect of each class; the lnN width is the asymmetric pair (down, up)
Effects ==
    {Unconstrained,
     [kind |-> "gauss", width |-> <<Fin(1, 2)>>, tuple |-> FALSE,
      up |-> <<>>, down |-> <<>>, lamb |-> <<>>],
     [kind |-> "shape", width |-> <<>>, tuple |-> FALSE,
      up |-> <<Fin(12, 1), Fin(23, 1)>>, down |-> <<Fin(8, 1), Fin(19, 1)>>,
      lamb |-> <<>>],
     [kind |-> "lnN", width |-> <<Fin(1, 2), Fin(1, 1)>>, tuple |-> TRUE,
      up |-> <<>>, down |-> <<>>, lamb |-> <<>>],
     [kind |-> "poisson", width |-> <<>>, tuple |-> FALSE,
      up |-> <<>>, down |-> <<>>, lamb |-> <<Fin(4, 1), Fin(9, 1)>>]}

Bounds0to100 == <<Scalar(Zero), Scalar(Fin(100, 1))>>
Unbounded    == <<Scalar(NInf), Scalar(PInf)>>

\* values and bounds for the study of Parameter itself
ParamValues == {Scalar(Fin(50, 1)), Scalar(Fin(101, 1)), Scalar(Zero),
                Vector(<<Fin(-1, 1), Fin(100, 1)>>)}
ParamBounds == {Bounds0to100, Unbounded}

\* values and bounds for the study of modifiers
ModValues == {Scalar(Zero), Scalar(One)}
ModBounds == {Bounds0to100, Unbounded}

----------------------------------------------------------------------------
(* Idle values of the variables a specification does not use               *)

NoErr    == [raised |-> FALSE, duplicates |-> <<>>, modifiers |-> <<>>]
NoSf     == [called |-> FALSE, self |-> 0, sumw |-> <<>>, ok |-> FALSE,
             scale_factor |-> <<>>, result |-> <<>>]
NoUpd    == [called |-> FALSE, self |-> 0, value |-> Scalar(Zero), result |-> 0]
NoPen    == [called |-> FALSE, self |-> 0, result |-> <<>>]
NoShape  == [factor |-> Zero, up |-> Zero, down |-> Zero, sumw |-> Zero,
             called |-> "", ok |-> FALSE, result |-> <<>>]
NoModel  == [parameters |-> <<>>]
NoNll    == [called |-> FALSE, values |-> <<>>, result |-> Zero]
NoHess   == [called |-> FALSE, values |-> <<>>, ok |-> FALSE, wrt |-> <<>>,
             rows |-> 0, cols |-> 0]
NoToy    == [called |-> FALSE, values |-> <<>>, ok |-> FALSE, mean |-> <<>>,
             cov |-> <<>>, rows |-> 0]

----------------------------------------------------------------------------
(* Operations on parameters and modifiers                                  *)

\* Parameter(value=..., bounds=...)
NewParameter(V, B) ==
    /\ Len(params) < MaxParams
    /\ \E value \in V, bounds \in B :
          params' = Append(params, ParameterInit(value, bounds))
    /\ UNCHANGED <<mods, comps, err, sfcall, updcall, pencall,
                   shapecall, model, observation, nllcall, hesscall, toycall>>

\* p.update(value): a new object joins the heap
Update(V) ==
    /\ Len(params) < MaxParams
    /\ \E self \in DOMAIN params, value \in V :
          /\ params' = Append(params, ParameterUpdate(params[self], value))
          /\ updcall' = [called |-> TRUE, self |-> self, value |-> value,
                         result |-> Len(params) + 1]
    /\ UNCHANGED <<mods, comps, err, sfcall, pencall,
                   shapecall, model, observation, nllcall, hesscall, toycall>>

\* p.boundary_penalty
ReadBoundaryPenalty ==
    /\ \E self \in DOMAIN params :
          pencall' = [called |-> TRUE, self |-> self,
                      result |-> boundary_penalty(params[self])]
    /\ UNCHANGED <<params, mods, comps, err, sfcall, updcall,
                   shapecall, model, observation, nllcall, hesscall, toycall>>

\* modifier(name=..., parameter=..., effect=...)
NewModifier(E) ==
    /\ ~err.raised
    /\ Len(mods) < MaxMods
    /\ \E name \in Names, parameter \in DOMAIN params, effect \in E :
          /\ mods' = Append(mods, [name |-> name, parameter |-> parameter,
                                   effect |-> effect])
          /\ params' = modifier_init_params(params, parameter, effect)
    /\ UNCHANGED <<comps, err, sfcall, updcall, pencall,
                   shapecall, model, observation, nllcall, hesscall, toycall>>

InitIdle ==
    /\ comps = <<>>
    /\ err = NoErr
    /\ sfcall = NoSf
   
    /\ updcall = NoUpd
    /\ pencall = NoPen
    /\ shapecall = NoShape
    /\ model = NoModel
    /\ observation = <<>>
    /\ nllcall = NoNll
    /\ hesscall = NoHess
    /\ toycall = NoToy

\* Parameters on their own: construction, update, boundary penalty
InitParam == params = <<>> /\ mods = <<>> /\ InitIdle
NextParam ==
    \/ NewParameter(ParamValues, ParamBounds)
    \/ Update(ParamValues)
    \/ ReadBoundaryPenalty
SpecParam == InitParam /\ [][NextParam]_vars

\* Parameters shared by modifiers
Init == params = <<>> /\ mods = <<>> /\ InitIdle
Next ==
    \/ NewParameter(ModValues, ModBounds)
    \/ Update(ModValues)
    \/ NewModifier(Effects)
Spec == Init /\ [][Next]_vars

----------------------------------------------------------------------------
(* Compositions over parameters that already exist                         *)

MaxComps == 2
MaxChildren == 2

Refs ==
    {[type |-> "modifier", id |-> i] : i \in DOMAIN mods}
    \cup {[type |-> "compose", id |-> i] : i \in DOMAIN comps}

ChildTuples == UNION {[1..n -> Refs] : n \in 0..MaxChildren}

SumwInputs == {<<Fin(10, 1), Fin(20, 1)>>, <<Zero, Fin(30, 1)>>}

\* compose(*modifiers): raises on duplicate names, else the object exists;
\* the ValueError ends the run
NewCompose ==
    /\ ~err.raised
    /\ Len(comps) < MaxComps
    /\ \E modifiers \in ChildTuples :
          LET self == [modifiers |-> modifiers]
              dups == duplicates(self)
          IN  IF dups # <<>>
              THEN /\ err' = [raised |-> TRUE, duplicates |-> dups,
                              modifiers |-> modifiers]
                   /\ comps' = comps
              ELSE /\ err' = [raised |-> FALSE, duplicates |-> <<>>,
                              modifiers |-> modifiers]
                   /\ comps' = Append(comps, self)
    /\ UNCHANGED <<params, mods, sfcall, updcall, pencall,
                   shapecall, model, observation, nllcall, hesscall, toycall>>

\* c.scale_factor(sumw) and c(sumw)
EvalCompose ==
    /\ ~err.raised
    /\ \E self \in DOMAIN comps, sumw \in SumwInputs :
          LET sf == compose_scale_factor(comps[self], sumw)
              y  == compose_call(comps[self], sumw)
          IN  sfcall' = [called |-> TRUE, self |-> self, sumw |-> sumw,
                         ok |-> sf.ok /\ y.ok,
                         scale_factor |-> sf.val, result |-> y.val]
    /\ UNCHANGED <<params, mods, comps, err, updcall, pencall,
                   shapecall, model, observation, nllcall, hesscall, toycall>>

\* the names of a composition: every modifier is unconstrained
InitNames ==
    /\ params = <<ParameterInit(Scalar(Fin(3, 2)), Bounds0to100)>>
    /\ mods = <<>>
    /\ InitIdle

NextNames ==
    \/ NewModifier({Unconstrained})
    \/ NewCompose
    \/ EvalCompose
SpecNames == InitNames /\ [][NextNames]_vars

\* the scale factor of a composition: every effect, on one parameter
InitCompose ==
    /\ params = <<ParameterInit(Scalar(Fin(3, 2)), Bounds0to100)>>
    /\ mods = <<>>
    /\ InitIdle

NextCompose ==
    \/ NewModifier(Effects)
    \/ NewCompose
    \/ EvalCompose
SpecCompose == InitCompose /\ [][NextCompose]_vars

----------------------------------------------------------------------------
(* The shape effect on one bin: the templates, the nominal yield and the    *)
(* nuisance value are chosen at the start, then vshift or scale_factor is   *)
(* evaluated.                                                               *)

MaxYield == 3
MaxFactor == 2
FactorDen == 2

Yields  == {Fin(n, 1) : n \in 0..MaxYield}
Factors == {Fin(n, FactorDen) : n \in -(MaxFactor * FactorDen)..(MaxFactor * FactorDen)}

ShapeEffect(up, down) ==
    [kind |-> "shape", width |-> <<>>, tuple |-> FALSE,
     up |-> as1darray(Scalar(up)), down |-> as1darray(Scalar(down)), lamb |-> <<>>]

InitShape ==
    /\ params = <<>>
    /\ mods = <<>>
    /\ comps = <<>> /\ err = NoErr /\ sfcall = NoSf
    /\ updcall = NoUpd /\ pencall = NoPen
    /\ model = NoModel /\ observation = <<>>
    /\ nllcall = NoNll /\ hesscall = NoHess /\ toycall = NoToy
    /\ \E factor \in Factors, up \in Yields, down \in Yields, sumw \in Yields :
          shapecall = [factor |-> factor, up |-> up, down |-> down, sumw |-> sumw,
                       called |-> "", ok |-> FALSE, result |-> <<>>]

\* shape(up, down).vshift(parameter, sumw)
CallVshift ==
    /\ shapecall.called = ""
    /\ LET r == vshift(ShapeEffect(shapecall.up, shapecall.down),
                       ParameterInit(Scalar(shapecall.factor), Unbounded),
                       <<shapecall.sumw>>)
       IN  shapecall' = [shapecall EXCEPT !.called = "vshift", !.ok = r.ok,
                                          !.result = r.val]
    /\ UNCHANGED <<params, mods, comps, err, sfcall, updcall, pencall,
                   model, observation, nllcall, hesscall, toycall>>

\* shape(up, down).scale_factor(parameter, sumw)
CallShapeScaleFactor ==
    /\ shapecall.called = ""
    /\ LET r == shape_scale_factor(ShapeEffect(shapecall.up, shapecall.down),
                                   ParameterInit(Scalar(shapecall.factor), Unbounded),
                                   <<shapecall.sumw>>)
       IN  shapecall' = [shapecall EXCEPT !.called = "scale_factor", !.ok = r.ok,
                                          !.result = r.val]
    /\ UNCHANGED <<params, mods, comps, err, sfcall, updcall, pencall,
                   model, observation, nllcall, hesscall, toycall>>

NextShape == CallVshift \/ CallShapeScaleFactor
SpecShape == InitShape /\ [][NextShape]_vars

----------------------------------------------------------------------------
(* The likelihood layer.  Model is the collaborator of likelihood.py: it    *)
(* owns named parameters and processes.  The one here is the model of the   *)
(* docstrings: a signal scaled by mu (unconstrained) and a background       *)
(* scaled by sigma (lnN), in one bin.  A dict of values is a function on    *)
(* its keys.                                                                *)

ParamOrder == <<"mu", "sigma">>        \* the parameter names, sorted
ParamNames == SeqRange(ParamOrder)

\* jax.tree_util.tree_flatten of a dict: the leaves in sorted key order
SortedKeys(d) == SelectSeq(ParamOrder, LAMBDA key : key \in DOMAIN d)

Signal     == <<Fin(1, 1)>>
Background == <<Fin(2, 1)>>

MuEffect == Unconstrained
SigmaEffect ==
    [kind |-> "lnN", width |-> <<Fin(1, 2)>>, tuple |-> FALSE,
     up |-> <<>>, down |-> <<>>, lamb |-> <<>>]

\* elementwise operations on two 1-D arrays that broadcast against each other
ArrAdd(a, b) == [i \in 1..CommonLen({Len(a), Len(b)}) |-> NAdd(At(a, i), At(b, i))]
ArrSub(a, b) == [i \in 1..CommonLen({Len(a), Len(b)}) |-> NSub(At(a, i), At(b, i))]
ArrMul(a, b) == [i \in 1..CommonLen({Len(a), Len(b)}) |-> NMul(At(a, i), At(b, i))]

RECURSIVE SumFrom(_, _)
SumFrom(a, i) == IF i > Len(a) THEN Zero ELSE NAdd(a[i], SumFrom(a, i + 1))
Sum(a) == SumFrom(a, 1)

\* Model.parameter_values
parameter_values(m) == [key \in DOMAIN m.parameters |-> m.parameters[key].value]

\* Model.update(values=...): the named parameters are replaced by their update
model_update(m, values) ==
    [m EXCEPT !.parameters =
        [key \in DOMAIN m.parameters |->
            IF key \in DOMAIN values
            THEN ParameterUpdate(m.parameters[key], Rank1(values[key]))
            ELSE m.parameters[key]]]

\* Effect.__call__: atleast_1d(scale_factor) * sumw
effect_call(effect, parameter, sumw) ==
    ArrMul(effect_scale_factor(effect, parameter, sumw).val, sumw)

\* Model.evaluate().expectation(): the sum of the process expectations
expectation(m) ==
    ArrAdd(effect_call(MuEffect, m.parameters["mu"], Signal),
           effect_call(SigmaEffect, m.parameters["sigma"], Background))

\* Model.nll_boundary_penalty(): the sum of boundary_penalty over the parameters
RECURSIVE PenaltyOver(_, _)
PenaltyOver(m, keys) ==
    IF keys = {} THEN Zero
    ELSE LET key == CHOOSE x \in keys : TRUE
         IN  NAdd(Sum(boundary_penalty(m.parameters[key])),
                  PenaltyOver(m, keys \ {key}))

nll_boundary_penalty(m) == PenaltyOver(m, DOMAIN m.parameters)

\* the log-density of a constraint at x, a finite number: 0 for Flat and
\* -(x^2)/2 - 92/100 for the standard normal
constraint_logpdf(pdf, x) ==
    IF pdf.pdf = "Flat" THEN Zero
    ELSE NSub(NNeg(NMul(Fin(1, 2), NMul(x, x))), Fin(92, 100))

RECURSIVE ConstraintsOver(_, _)
ConstraintsOver(m, todo) ==
    IF todo = {} THEN Zero
    ELSE LET t == CHOOSE x \in todo : TRUE
         IN  NAdd(Sum([i \in DOMAIN m.parameters[t[1]].value |->
                          constraint_logpdf(t[2], m.parameters[t[1]].value[i])]),
                  ConstraintsOver(m, todo \ {t}))

\* Model.parameter_constraints(): the sum over the parameters' constraints
parameter_constraints(m) ==
    ConstraintsOver(m, {<<key, c>> \in (DOMAIN m.parameters) \X {Flat, Gauss(Zero, One)} :
                           c \in m.parameters[key].constraints})

\* the natural logarithm by its Pade approximant 2(x - 1)/(x + 1) on x > 0,
\* with log(0) = -inf and NaN below 0
log(x) ==
    CASE x.k = "nan"  -> NaN
      [] x.k = "pinf" -> PInf
      [] x.k = "ninf" -> NaN
      [] OTHER -> IF x.n < 0 THEN NaN
                  ELSE IF x.n = 0 THEN NInf
                  ELSE NDiv(NMul(Fin(2, 1), NSub(x, One)), NAdd(x, One))

\* scipy's xlogy: 0 where x = 0 (and y is a number), else x * log(y)
xlogy(x, y) ==
    IF y.k = "nan" THEN NaN ELSE IF x = Zero THEN Zero ELSE NMul(x, log(y))

\* gammaln(k + 1) = log(k!) for a count k
RECURSIVE Factorial(_)
Factorial(k) == IF k <= 0 THEN 1 ELSE k * Factorial(k - 1)
gammaln1p(k) == log(Fin(Factorial(k.n \div k.d), 1))

\* one element of jax.scipy.stats.poisson.logpmf(k, mu)
logpmf(k, mu) ==
    IF NLt(k, Zero) THEN NInf
    ELSE NSub(NSub(xlogy(k, mu), gammaln1p(k)), mu)

\* NLL.logpdf
logpdf(k, mu) ==
    [i \in 1..CommonLen({Len(k), Len(mu)}) |-> logpmf(At(k, i), At(mu, i))]

\* NLL.__call__
NLL_call(m, obs, values) ==
    LET updated == model_update(m, values)
        e       == expectation(updated)
        ratio   == ArrSub(logpdf(obs, e), logpdf(obs, obs))
        pen     == nll_boundary_penalty(updated)
        con     == parameter_constraints(updated)
        nll     == [i \in DOMAIN ratio |-> NAdd(NAdd(ratio[i], pen), con)]
    IN  NNeg(Sum(nll))

\* Hessian.__call__: [ok, wrt, rows, cols]; wrt lists the parameters of the rows
\* (and columns) in order.  The block for a pair of parameters has the shape
\* (len, len) of their values; jnp.array stacks the blocks if they have one
\* shape, and the reshape to (len(values), len(values)) keeps the size.
Hessian_call(m, values) ==
    LET vals   == IF DOMAIN values = {} THEN parameter_values(m) ELSE values
        keys   == SortedKeys(vals)
        lens   == {Len(vals[key]) : key \in DOMAIN vals}
        n      == Cardinality(DOMAIN vals)
    IN  IF lens = {1}
        THEN [ok |-> TRUE, wrt |-> keys, rows |-> n, cols |-> n]
        ELSE [ok |-> FALSE, wrt |-> keys, rows |-> 0, cols |-> 0]

\* CovMatrix.__call__: the inverse of -hessian has the shape of the hessian
CovMatrix_call(m, values) == Hessian_call(m, values)

\* the parameter each element of the concatenated leaves belongs to
RECURSIVE Owners(_, _)
Owners(d, keys) ==
    IF keys = <<>> THEN <<>>
    ELSE [i \in 1..Len(d[Head(keys)]) |-> Head(keys)] \o Owners(d, Tail(keys))

\* SampleToy.__call__ up to the draw: [ok, mean, cov, rows]; mean lists the
\* parameter of each element of the mean vector, cov the parameters of the
\* covariance's rows; multivariate_normal raises unless cov is n x n for a mean
\* of length n
SampleToy_call(m, values) ==
    LET vals   == IF DOMAIN values = {} THEN parameter_values(m) ELSE values
        cov    == CovMatrix_call(m, vals)
        leaves == parameter_values(model_update(m, vals))
        mean   == Owners(leaves, SortedKeys(leaves))
    IN  [ok |-> cov.ok /\ cov.rows = Len(mean) /\ cov.cols = Len(mean),
         mean |-> mean, cov |-> cov.wrt, rows |-> cov.rows]

Observations == {<<Fin(3, 1)>>, <<Zero>>}
InfValues == {<<One>>, <<Fin(-1, 1)>>, <<Fin(101, 1)>>, <<One, One>>}
ValueDicts == UNION {[keys -> InfValues] : keys \in SUBSET ParamNames}

DocModel ==
    [parameters |->
        [key \in ParamNames |->
            IF key = "mu"
            THEN [ParameterInit(Scalar(One), Bounds0to100)
                     EXCEPT !.constraints = {constraint(MuEffect)}]
            ELSE [ParameterInit(Scalar(Zero),
                                <<Scalar(Fin(-100, 1)), Scalar(Fin(100, 1))>>)
                     EXCEPT !.constraints = {constraint(SigmaEffect)}]]]

InitInference ==
    /\ params = <<>> /\ mods = <<>>
    /\ comps = <<>> /\ err = NoErr /\ sfcall = NoSf
    /\ updcall = NoUpd /\ pencall = NoPen /\ shapecall = NoShape
    /\ model = DocModel
    /\ observation \in Observations
    /\ nllcall = NoNll /\ hesscall = NoHess /\ toycall = NoToy

\* nll(values)
CallNLL ==
    /\ \E values \in ValueDicts :
          nllcall' = [called |-> TRUE, values |-> values,
                      result |-> NLL_call(model, observation, values)]
    /\ hesscall' = NoHess /\ toycall' = NoToy
    /\ UNCHANGED <<params, mods, comps, err, sfcall, updcall, pencall,
                   shapecall, model, observation>>

\* hessian(values)
CallHessian ==
    /\ \E values \in ValueDicts :
          LET h == Hessian_call(model, values)
          IN  hesscall' = [called |-> TRUE, values |-> values, ok |-> h.ok,
                           wrt |-> h.wrt, rows |-> h.rows, cols |-> h.cols]
    /\ nllcall' = NoNll /\ toycall' = NoToy
    /\ UNCHANGED <<params, mods, comps, err, sfcall, updcall, pencall,
                   shapecall, model, observation>>

\* sample_toy(values, key)
CallSampleToy ==
    /\ \E values \in ValueDicts :
          LET t == SampleToy_call(model, values)
          IN  toycall' = [called |-> TRUE, values |-> values, ok |-> t.ok,
                          mean |-> t.mean, cov |-> t.cov, rows |-> t.rows]
    /\ nllcall' = NoNll /\ hesscall' = NoHess
    /\ UNCHANGED <<params, mods, comps, err, sfcall, updcall, pencall,
                   shapecall, model, observation>>

NextInference == CallNLL \/ CallHessian \/ CallSampleToy
SpecInference == InitInference /\ [][NextInference]_vars

----------------------------------------------------------------------------
(* Properties                                                              *)

\* lo <= v <= hi for a finite v, written out on numerators and denominators
Within(v, lo, hi) ==
    /\ lo.k = "ninf" \/ (lo.k = "fin" /\ lo.n * v.d <= v.n * lo.d)
    /\ hi.k = "pinf" \/ (hi.k = "fin" /\ v.n * hi.d <= hi.n * v.d)

\* C4: boundary_penalty has one element per element of value; the element is
\* +infinity exactly when the value is below lower or above upper and 0
\* otherwise, so it is 0 on both bounds; every value, in range or not, gets an
\* answer.
C4_BoundaryPenalty ==
    pencall.called =>
        LET p == params[pencall.self]
        IN  /\ Len(pencall.result) = Len(p.value)
            /\ \A i \in DOMAIN p.value :
                  pencall.result[i] =
                     IF Within(p.value[i], p.bounds[1][1], p.bounds[2][1])
                     THEN Zero ELSE PInf

\* a parameter bounded by [0, 100] holding (-1, 100): penalty (+infinity, 0)
C4_Witness ==
    /\ pencall.called
    /\ params[pencall.self].bounds = <<<<Zero>>, <<Fin(100, 1)>>>>
    /\ params[pencall.self].value = <<Fin(-1, 1), Fin(100, 1)>>
    /\ pencall.result = <<PInf, Zero>>

\* the constraint kind the claim gives each effect class
KindOf(kind) ==
    IF kind = "unconstrained"
    THEN [pdf |-> "Flat", mean |-> Zero, width |-> Zero]
    ELSE [pdf |-> "Gauss", mean |-> Zero, width |-> One]

ModifiersOn(i) == {j \in DOMAIN mods : mods[j].parameter = i}

\* C5: the constraint set of every Parameter object is the set of the
\* constraint kinds of the effects of the modifiers constructed with that
\* object (Flat for unconstrained, the standard normal for the others).
C5_ConstraintsAccumulate ==
    \A i \in DOMAIN params :
        params[i].constraints = {KindOf(mods[j].effect.kind) : j \in ModifiersOn(i)}

\* one parameter carries two modifiers of the same kind, once; another object
\* exists and carries a different set
C5_Witness ==
    \E i, k \in DOMAIN params :
        /\ Cardinality(ModifiersOn(i)) = 2
        /\ Cardinality(params[i].constraints) = 1
        /\ params[k].constraints # params[i].constraints

\* C6, the result: the object update returned holds the supplied value as a
\* 1-D array and the receiver's bounds, and is not the receiver
C6_Result ==
    updcall.called =>
        /\ updcall.result # updcall.self
        /\ params[updcall.result].value = updcall.value.data
        /\ params[updcall.result].bounds = params[updcall.self].bounds

\* C6, the frame: an update call leaves every object that existed before it,
\* the receiver included, with the value, bounds and constraints it had
C6_Frame ==
    updcall' # updcall =>
        \A i \in DOMAIN params : i \in DOMAIN params' /\ params'[i] = params[i]

\* C6: Parameter.update returns a new Parameter with the supplied value and
\* the receiver's bounds, and the receiver is the same after the call as
\* before it, over any sequence of update calls.
C6_UpdateIsFunctional == [](C6_Result) /\ [][C6_Frame]_vars

\* the receiver carries a registered constraint and a value other than the
\* supplied one, and the object returned keeps its bounds [0, 100]
C6_Witness ==
    /\ updcall.called
    /\ params[updcall.self].constraints # {}
    /\ params[updcall.self].value # params[updcall.result].value
    /\ params[updcall.result].bounds = <<<<Zero>>, <<Fin(100, 1)>>>>
    /\ params[updcall.result].value = <<One>>

\* the inputs of the shape call, as integers: value fn/fd, templates and yield
ShFn   == shapecall.factor.n
ShFd   == shapecall.factor.d
ShUp   == shapecall.up.n
ShDown == shapecall.down.n
ShNom  == shapecall.sumw.n

\* the result r equals the fraction num/den (den > 0)
IsFraction(r, num, den) == r.k = "fin" /\ r.n * den = num * r.d

\* 8 * fd^6 * (3x^3 - 10x^2 + 15x)/8 at x = (fn/fd)^2
SmoothNum(fn, fd) ==
    3 * fn^6 - 10 * fn^4 * fd^2 + 15 * fn^2 * fd^4

\* C7: vshift(0) = 0, vshift(1) = up - nominal, vshift(-1) = down - nominal;
\* beyond |f| = 1 it is the linear 0.5*((up - down)*f + (up + down - 2*nominal)*|f|)
\* and for |f| <= 1 the weight of up + down - 2*nominal is the polynomial
\* (3x^3 - 10x^2 + 15x)/8 at x = f*f.
C7_Vshift ==
    shapecall.called = "vshift" =>
        LET r == shapecall.result[1]
            dsum == ShUp + ShDown - 2 * ShNom
            ddiff == ShUp - ShDown
        IN  /\ shapecall.ok /\ Len(shapecall.result) = 1
            /\ ShFn = 0 => r = Zero
            /\ ShFn = ShFd => IsFraction(r, ShUp - ShNom, 1)
            /\ ShFn = -ShFd => IsFraction(r, ShDown - ShNom, 1)
            /\ Abs(ShFn) > ShFd =>
                  IsFraction(r, ddiff * ShFn + dsum * Abs(ShFn), 2 * ShFd)
            /\ Abs(ShFn) <= ShFd =>
                  IsFraction(r, ddiff * ShFn * 8 * ShFd^5 + dsum * SmoothNum(ShFn, ShFd),
                             16 * ShFd^6)

\* f = 1/2 with up = 3, down = 0, nominal = 1: the polynomial weighs
\* up + down - 2*nominal by 203/512 and the shift is 971/1024, where the
\* linear formula would give 1
C7_Witness ==
    /\ shapecall.called = "vshift"
    /\ shapecall.factor = Fin(1, 2)
    /\ shapecall.up = Fin(3, 1) /\ shapecall.down = Zero /\ shapecall.sumw = One
    /\ shapecall.result = <<Fin(971, 1024)>>

\* C9: shape.scale_factor is never below 1e-5, for every nuisance value,
\* template and nominal yield: it is a finite number >= 1e-5.
C9_ScaleFactorFloored ==
    shapecall.called = "scale_factor" =>
        /\ shapecall.ok
        /\ \A i \in DOMAIN shapecall.result :
              /\ shapecall.result[i].k = "fin"
              /\ shapecall.result[i].n * ClipMinDen >= shapecall.result[i].d

\* what the code does keep: with a nominal yield above 0 the result is a
\* finite number >= 1e-5
ShapeFloorAbovePositiveYield ==
    (shapecall.called = "scale_factor" /\ ShNom > 0) =>
        \A i \in DOMAIN shapecall.result :
            /\ shapecall.result[i].k = "fin"
            /\ shapecall.result[i].n * ClipMinDen >= shapecall.result[i].d

\* how often name occurs among the leaves under a tuple of children, read
\* left to right through every nesting level
RECURSIVE LeafCount(_, _)
LeafCount(children, name) ==
    IF children = <<>> THEN 0
    ELSE LET c == Head(children)
         IN  (IF c.type = "modifier"
              THEN (IF mods[c.id].name = name THEN 1 ELSE 0)
              ELSE LeafCount(comps[c.id].modifiers, name))
             + LeafCount(Tail(children), name)

Duplicated(children) == {name \in Names : LeafCount(children, name) > 1}

\* C1, the outcome: the construction raised exactly when a leaf name occurs
\* twice in the tree, the error names every such name and no other, and a
\* construction that did not raise made the object
C1_Outcome ==
    /\ err.raised <=> Duplicated(err.modifiers) # {}
    /\ err.raised => SeqRange(err.duplicates) = Duplicated(err.modifiers)
    /\ \A c \in DOMAIN comps : Duplicated(comps[c].modifiers) = {}

\* C1, the moment: a construction evaluates no scale factor, and one that
\* raises leaves no object behind
C1_AtConstruction ==
    (err' # err \/ comps' # comps) =>
        /\ sfcall' = sfcall
        /\ (err'.raised => comps' = comps)
        /\ (~err'.raised => comps' = Append(comps, [modifiers |-> err'.modifiers]))

\* C1: constructing a compose fails if and only if a leaf name occurs more
\* than once in the flattening of the whole tree, nested levels included; the
\* error reports every duplicated name; it is raised at construction, before
\* any scale factor is evaluated.
C1_DuplicateNamesRejected == [](C1_Outcome) /\ [][C1_AtConstruction]_vars

\* a name used once directly and once inside a nested composition
C1_Witness ==
    /\ err.raised
    /\ Len(err.modifiers) = 2
    /\ err.modifiers[1].type = "compose"
    /\ err.modifiers[2].type = "modifier"
    /\ Duplicated(<<err.modifiers[2]>>) = {}
    /\ Duplicated(comps[err.modifiers[1].id].modifiers) = {}
    /\ err.duplicates # <<>>

\* the leaves under a tuple of children, left to right
RECURSIVE Leaves(_)
Leaves(children) ==
    IF children = <<>> THEN <<>>
    ELSE LET c == Head(children)
         IN  (IF c.type = "modifier" THEN <<c.id>> ELSE Leaves(comps[c.id].modifiers))
             \o Leaves(Tail(children))

\* element i of the product of the leaves' own scale factors
RECURSIVE LeafProduct(_, _, _)
LeafProduct(leaves, sumw, i) ==
    IF leaves = <<>> THEN One
    ELSE NMul(At(modifier_scale_factor(mods[Head(leaves)], sumw).val, i),
              LeafProduct(Tail(leaves), sumw, i))

ProductOfLeaves(self) ==
    /\ sfcall.ok
    /\ Len(sfcall.scale_factor) = Len(sfcall.sumw)
    /\ Len(sfcall.result) = Len(sfcall.sumw)
    /\ \A i \in DOMAIN sfcall.sumw :
          /\ sfcall.scale_factor[i] =
                LeafProduct(Leaves(comps[self].modifiers), sfcall.sumw, i)
          /\ sfcall.result[i] = NMul(sfcall.sumw[i], sfcall.scale_factor[i])

\* C2: for every constructed composition and every nominal yield,
\* scale_factor is the elementwise product of the scale factors of all its
\* leaves, each counted once, and the call gives yield * scale_factor.
C2_ScaleFactorIsProduct ==
    sfcall.called => ProductOfLeaves(sfcall.self)

\* what the code does keep: the same for a composition with at least one leaf
ProductOfLeavesWhenNonEmpty ==
    (sfcall.called /\ Leaves(comps[sfcall.self].modifiers) # <<>>) =>
        ProductOfLeaves(sfcall.self)

\* a nested composition with two leaves has been evaluated
ProductOfLeavesReached ==
    /\ sfcall.called /\ sfcall.ok
    /\ Len(Leaves(comps[sfcall.self].modifiers)) = 2
    /\ \E m \in DOMAIN comps[sfcall.self].modifiers :
          comps[sfcall.self].modifiers[m].type = "compose"

\* the parameters of the updated model that lie outside their bounds
OutOfBounds(m) ==
    {key \in DOMAIN m.parameters :
        \E i \in DOMAIN m.parameters[key].value :
            ~Within(m.parameters[key].value[i],
                    m.parameters[key].bounds[1][1], m.parameters[key].bounds[2][1])}

\* C3: NLL(values) is +infinity whenever a parameter of the updated model is
\* outside its bounds, for every observation and every finite expectation.
C3_NllDivergesUp ==
    (nllcall.called /\ OutOfBounds(model_update(model, nllcall.values)) # {}) =>
        nllcall.result = PInf

\* what the code does: out of bounds the result is never +infinity; it is
\* -infinity, or NaN where a per-bin term is itself -infinity or NaN
NllOutOfBoundsIsNotPlusInfinity ==
    (nllcall.called /\ OutOfBounds(model_update(model, nllcall.values)) # {}) =>
        nllcall.result \in {NInf, NaN}

\* in bounds the result is a finite number, -infinity or NaN, never +infinity
NllInBounds ==
    (nllcall.called /\ OutOfBounds(model_update(model, nllcall.values)) = {}) =>
        nllcall.result # PInf

\* C8: Hessian(values) returns a square matrix whose side is the number of
\* parameters of the model, its rows and columns being all the parameters in
\* one order; with no values the stored parameter values are used.
C8_HessianOverAllParameters ==
    hesscall.called =>
        /\ hesscall.ok
        /\ hesscall.rows = Cardinality(DOMAIN model.parameters)
        /\ hesscall.cols = Cardinality(DOMAIN model.parameters)
        /\ hesscall.wrt = ParamOrder

\* what the code does: the side is the number of entries of values (of the
\* stored values when values is empty), when every value has one element
HessianOverGivenValues ==
    hesscall.called =>
        LET given == IF DOMAIN hesscall.values = {} THEN ParamNames
                     ELSE DOMAIN hesscall.values
        IN  /\ SeqRange(hesscall.wrt) = given
            /\ hesscall.ok => hesscall.rows = Cardinality(given)
                              /\ hesscall.cols = Cardinality(given)
            /\ hesscall.ok <=>
                  \A key \in DOMAIN hesscall.values : Len(hesscall.values[key]) = 1

\* C10: in every SampleToy call the mean vector and the covariance matrix
\* range over the same parameters in the same order and have matching
\* dimension, whether values is empty, names all parameters or names some.
C10_MeanMatchesCovariance ==
    toycall.called =>
        /\ toycall.mean = toycall.cov
        /\ toycall.rows = Len(toycall.mean)

\* what the code does: they match when values is empty or names every
\* parameter with a one-element value
ToyMatchesForFullValues ==
    (toycall.called
     /\ DOMAIN toycall.values \in {{}, ParamNames}
     /\ \A key \in DOMAIN toycall.values : Len(toycall.values[key]) = 1) =>
        /\ toycall.ok
        /\ toycall.mean = toycall.cov
        /\ toycall.rows = Len(toycall.mean)

\* C11, at an update: the object returned has no constraints, whatever the
\* receiver holds
C11_AtUpdate ==
    updcall' # updcall => params'[updcall'.result].constraints = {}

\* C11, at a modifier construction: the constraint is added to the object
\* passed to the modifier, and the set of every other object, those derived
\* from it by update included, is as it was
C11_AtModifier ==
    mods' # mods =>
        LET m == mods'[Len(mods')]
        IN  /\ KindOf(m.effect.kind) \in params'[m.parameter].constraints
            /\ \A i \in DOMAIN params :
                   i # m.parameter => params'[i].constraints = params[i].constraints

\* C11, afterwards: an object returned by update on which no modifier was
\* constructed still has no constraints
C11_Derived ==
    (updcall.called /\ ModifiersOn(updcall.result) = {}) =>
        params[updcall.result].constraints = {}

\* C11: the Parameter returned by Parameter.update has an empty constraint
\* set, whatever constraints modifiers had registered on the receiver; a
\* constraint registered by a modifier construction is held only by the
\* object passed to that modifier and is not carried to a Parameter derived
\* from it by update.
C11_UpdateDropsConstraints ==
    [](C11_Derived) /\ [][C11_AtUpdate /\ C11_AtModifier]_vars

\* the receiver holds both constraint kinds, from two modifiers, and the
\* object returned by update holds none
C11_Witness ==
    /\ updcall.called
    /\ Cardinality(ModifiersOn(updcall.self)) = 2
    /\ Cardinality(params[updcall.self].constraints) = 2
    /\ ModifiersOn(updcall.result) = {}
    /\ params[updcall.result].constraints = {}

====
